---------------------------- MODULE Spec2Model ----------------------------
(***************************************************************************)
(* Model of the subtitle pipeline of src/subtitle_extractor.py:            *)
(* extract_subtitles -> _extract_subtitle_content ->                       *)
(* _resolve_subtitle_priority -> _get_subtitle_from_info ->                *)
(* _download_subtitle_content, and the normalizer _clean_subtitle_text.    *)
(*                                                                         *)
(* A Python str is a sequence of one-character strings, so that prefix     *)
(* tests, regular expressions and the JSON decoder are computed character  *)
(* by character.                                                           *)
(***************************************************************************)
EXTENDS Naturals, Integers, Sequences, FiniteSets, TLC

(***************************************************************************)
(* Character classes of Python's re module and of str.strip, restricted to *)
(* ASCII.                                                                  *)
(***************************************************************************)
Digits == {"0", "1", "2", "3", "4", "5", "6", "7", "8", "9"}

Lower == {"a", "b", "c", "d", "e", "f", "g", "h", "i", "j", "k", "l", "m",
          "n", "o", "p", "q", "r", "s", "t", "u", "v", "w", "x", "y", "z"}

Upper == {"A", "B", "C", "D", "E", "F", "G", "H", "I", "J", "K", "L", "M",
          "N", "O", "P", "Q", "R", "S", "T", "U", "V", "W", "X", "Y", "Z"}

Letters == Lower \cup Upper

\* \s of re and the characters str.strip() removes, among the characters
\* of the payloads considered (form feed and vertical tab are not)
Whitespace == {" ", "\t", "\n", "\r"}

\* [.!?]
SentencePunct == {".", "!", "?"}

\* [\[\]{},"\'] of the artifact removal
ArtifactChars == {"[", "]", "{", "}", ",", "\"", "'"}

\* [\s\[\]{},"\':] of the special-characters-only line test
SpecialLineChars == Whitespace \cup ArtifactChars \cup {":"}

(***************************************************************************)
(* Evaluation helper: F(e) with e evaluated once.  The recursive           *)
(* definitions below bind every intermediate result with it, so that a     *)
(* result used several times is not computed again at each use.            *)
(***************************************************************************)
Bind(e, F(_)) == CHOOSE r \in {F(x) : x \in {e}} : TRUE

Min(S) == Bind(S, LAMBDA T : CHOOSE x \in T : \A y \in T : x <= y)

Max(S) == Bind(S, LAMBDA T : CHOOSE x \in T : \A y \in T : y <= x)

(***************************************************************************)
(* String helpers.                                                         *)
(***************************************************************************)
\* s[i] with "" outside the string
At(s, i) == Bind(i, LAMBDA a : IF a >= 1 /\ a <= Len(s) THEN s[a] ELSE "")

\* s[i:i+len(lit)] == lit
LiteralAt(s, i, lit) ==
  Bind(i, LAMBDA a : \A k \in 1..Len(lit) : At(s, a + k - 1) = lit[k])

\* str.startswith
StartsWith(s, prefix) == Len(prefix) <= Len(s) /\ LiteralAt(s, 1, prefix)

\* lit in s
Contains(s, lit) == \E i \in 1..(Len(s) + 1 - Len(lit)) : LiteralAt(s, i, lit)

\* the length of the longest run of characters of class cls that starts at s[i]
RunLen(s, i, cls) ==
  Bind(i, LAMBDA a :
    Bind({k \in a..Len(s) : s[k] \notin cls}, LAMBDA stops :
      IF a > Len(s) THEN 0
      ELSE IF stops = {} THEN Len(s) + 1 - a
      ELSE Min(stops) - a))

\* the length of the longest run of characters other than stop that starts at s[i]
RunLenNot(s, i, stop) ==
  Bind(i, LAMBDA a :
    Bind({k \in a..Len(s) : s[k] = stop}, LAMBDA stops :
      IF a > Len(s) THEN 0
      ELSE IF stops = {} THEN Len(s) + 1 - a
      ELSE Min(stops) - a))

\* str.strip(): without the leading and the trailing run of white space
Strip(s) ==
  Bind(s, LAMBDA t :
    Bind({k \in 1..Len(t) : t[k] \notin Whitespace}, LAMBDA kept :
      IF kept = {} THEN <<>> ELSE SubSeq(t, Min(kept), Max(kept))))

\* str.isspace()
IsSpace(s) == s # <<>> /\ \A k \in 1..Len(s) : s[k] \in Whitespace

\* s.split('\n'): the lines of s from position i on
RECURSIVE SplitFrom(_, _)
SplitFrom(s, i) ==
  Bind(RunLenNot(s, i, "\n"), LAMBDA n :
    IF i + n > Len(s)
    THEN <<SubSeq(s, i, Len(s))>>
    ELSE <<SubSeq(s, i, i + n - 1)>> \o SplitFrom(s, i + n + 1))

SplitLines(s) == Bind(s, LAMBDA t : SplitFrom(t, 1))

\* ' '.join(parts)
RECURSIVE JoinFrom(_, _)
JoinFrom(parts, k) ==
  IF k > Len(parts) THEN <<>>
  ELSE IF k = Len(parts) THEN parts[k]
  ELSE parts[k] \o <<" ">> \o JoinFrom(parts, k + 1)

JoinSpace(parts) == Bind(parts, LAMBDA ps : JoinFrom(ps, 1))

(***************************************************************************)
(* The regular expressions of _clean_subtitle_text.  Each M_* operator     *)
(* gives the length of the match of one pattern that starts at s[i], 0     *)
(* when there is none (no pattern of the function matches the empty        *)
(* string).  Greedy quantifiers are followed by a character outside their  *)
(* class in every pattern, so the longest run is the only candidate,       *)
(* except in the sequence-number pattern, which backtracks over \s*.       *)
(***************************************************************************)
\* ^ under re.MULTILINE
LineStart(s, i) == i = 1 \/ At(s, i - 1) = "\n"

\* $ under re.MULTILINE, tested before s[p]
LineEnd(s, p) == p = Len(s) + 1 \/ At(s, p) = "\n"

\* the first j >= i with s[j] = s[j+1] = "\n", 0 when there is none
BlankLineFrom(s, i) ==
  Bind({j \in i..(Len(s) - 1) : s[j] = "\n" /\ s[j + 1] = "\n"}, LAMBDA blank :
    IF blank = {} THEN 0 ELSE Min(blank))

\* ^WEBVTT.*?\n\n   (re.MULTILINE | re.DOTALL)
M_VttHeader(s, i) ==
  IF LineStart(s, i) /\ LiteralAt(s, i, <<"W", "E", "B", "V", "T", "T">>)
  THEN Bind(BlankLineFrom(s, i + 6), LAMBDA j : IF j = 0 THEN 0 ELSE j + 2 - i)
  ELSE 0

\* \d{2}:\d{2}:\d{2}[seps]\d{3} at s[i]
TimestampAt(s, i, seps) ==
  Bind(i, LAMBDA a :
    /\ At(s, a) \in Digits /\ At(s, a + 1) \in Digits /\ At(s, a + 2) = ":"
    /\ At(s, a + 3) \in Digits /\ At(s, a + 4) \in Digits /\ At(s, a + 5) = ":"
    /\ At(s, a + 6) \in Digits /\ At(s, a + 7) \in Digits /\ At(s, a + 8) \in seps
    /\ At(s, a + 9) \in Digits /\ At(s, a + 10) \in Digits /\ At(s, a + 11) \in Digits)

\* <timestamp>\s*--><\s*<timestamp>
M_CueTiming(s, i, seps) ==
  IF ~TimestampAt(s, i, seps) THEN 0
  ELSE Bind(i + 12 + RunLen(s, i + 12, Whitespace), LAMBDA a :
         Bind(a + 3 + RunLen(s, a + 3, Whitespace), LAMBDA b :
           IF LiteralAt(s, a, <<"-", "-", ">">>) /\ TimestampAt(s, b, seps)
           THEN b + 12 - i
           ELSE 0))

\* \d{2}:\d{2}:\d{2}[,\.]\d{3}\s*-->\s*\d{2}:\d{2}:\d{2}[,\.]\d{3}
M_SrtTimestamp(s, i) == M_CueTiming(s, i, {",", "."})

\* \d{2}:\d{2}:\d{2}\.\d{3}\s*-->\s*\d{2}:\d{2}:\d{2}\.\d{3}
M_VttTimestamp(s, i) == M_CueTiming(s, i, {"."})

\* ^\d+\s*$   (re.MULTILINE): \s* is greedy and gives characters back until $
\* matches, so the match ends at the last line end within the whitespace run
M_SequenceNumber(s, i) ==
  IF ~(LineStart(s, i) /\ At(s, i) \in Digits) THEN 0
  ELSE Bind(RunLen(s, i, Digits), LAMBDA d :
         Bind(RunLen(s, i + d, Whitespace), LAMBDA w :
           Bind({k \in 0..w : LineEnd(s, i + d + k)}, LAMBDA ends :
             IF ends = {} THEN 0 ELSE d + Max(ends))))

\* <[^>]+>
M_Tag(s, i) ==
  IF At(s, i) # "<" THEN 0
  ELSE Bind(RunLenNot(s, i + 1, ">"), LAMBDA n :
         IF n >= 1 /\ At(s, i + 1 + n) = ">" THEN n + 2 ELSE 0)

\* {[^}]+}
M_StyleBlock(s, i) ==
  IF At(s, i) # "{" THEN 0
  ELSE Bind(RunLenNot(s, i + 1, "}"), LAMBDA n :
         IF n >= 1 /\ At(s, i + 1 + n) = "}" THEN n + 2 ELSE 0)

\* <word>:\d+%
M_PercentCue(s, i, word) ==
  IF ~LiteralAt(s, i, word \o <<":">>) THEN 0
  ELSE Bind(i + Len(word) + 1, LAMBDA p :
         Bind(RunLen(s, p, Digits), LAMBDA d :
           IF d >= 1 /\ At(s, p + d) = "%" THEN Len(word) + 1 + d + 1 ELSE 0))

\* position:\d+%
M_Position(s, i) == M_PercentCue(s, i, <<"p", "o", "s", "i", "t", "i", "o", "n">>)

\* size:\d+%
M_Size(s, i) == M_PercentCue(s, i, <<"s", "i", "z", "e">>)

\* align:[a-zA-Z]+
M_Align(s, i) ==
  IF ~LiteralAt(s, i, <<"a", "l", "i", "g", "n", ":">>) THEN 0
  ELSE Bind(RunLen(s, i + 6, Letters), LAMBDA n : IF n >= 1 THEN 6 + n ELSE 0)

\* [\[\]{},"\']
M_ArtifactChar(s, i) == IF At(s, i) \in ArtifactChars THEN 1 ELSE 0

\* wsWinStyles|wpWinPositions|events
M_ArtifactWord(s, i) ==
  IF LiteralAt(s, i, <<"w", "s", "W", "i", "n", "S", "t", "y", "l", "e", "s">>) THEN 11
  ELSE IF LiteralAt(s, i, <<"w", "p", "W", "i", "n", "P", "o", "s", "i", "t", "i", "o", "n", "s">>) THEN 14
  ELSE IF LiteralAt(s, i, <<"e", "v", "e", "n", "t", "s">>) THEN 6
  ELSE 0

\* [\r\n]+
M_Newlines(s, i) == RunLen(s, i, {"\r", "\n"})

\* \s+
M_Spaces(s, i) == RunLen(s, i, Whitespace)

\* \s+([cls])
M_SpaceBefore(s, i, cls) ==
  Bind(RunLen(s, i, Whitespace), LAMBDA w :
    IF w >= 1 /\ At(s, i + w) \in cls THEN w + 1 ELSE 0)

\* ([cls])([^\s])
M_NoSpaceAfter(s, i, cls) ==
  IF At(s, i) \in cls /\ i + 1 <= Len(s) /\ At(s, i + 1) \notin Whitespace THEN 2 ELSE 0

\* the match of pattern pat at s[i]
MatchLen(pat, s, i) ==
  CASE pat = "vtt_header"         -> M_VttHeader(s, i)
    [] pat = "srt_timestamp"      -> M_SrtTimestamp(s, i)
    [] pat = "vtt_timestamp"      -> M_VttTimestamp(s, i)
    [] pat = "sequence_number"    -> M_SequenceNumber(s, i)
    [] pat = "tag"                -> M_Tag(s, i)
    [] pat = "style_block"        -> M_StyleBlock(s, i)
    [] pat = "position"           -> M_Position(s, i)
    [] pat = "align"              -> M_Align(s, i)
    [] pat = "size"               -> M_Size(s, i)
    [] pat = "artifact_char"      -> M_ArtifactChar(s, i)
    [] pat = "artifact_word"      -> M_ArtifactWord(s, i)
    [] pat = "newlines"           -> M_Newlines(s, i)
    [] pat = "spaces"             -> M_Spaces(s, i)
    [] pat = "space_before_punct" -> M_SpaceBefore(s, i, SentencePunct)
    [] pat = "punct_no_space"     -> M_NoSpaceAfter(s, i, SentencePunct)
    [] pat = "space_before_comma" -> M_SpaceBefore(s, i, {","})
    [] pat = "comma_no_space"     -> M_NoSpaceAfter(s, i, {","})

\* the replacement text of re.sub for the match of length n of pat at s[i]
Replacement(pat, s, i, n) ==
  CASE pat \in {"newlines", "spaces"}                         -> <<" ">>
    [] pat \in {"space_before_punct", "space_before_comma"}   -> <<s[i + n - 1]>>
    [] pat \in {"punct_no_space", "comma_no_space"}           -> <<s[i], " ", s[i + 1]>>
    [] OTHER                                                  -> <<>>

\* the leftmost position from s[i] on at which pat matches, 0 when there is none
NextMatch(pat, s, i) ==
  Bind({k \in i..Len(s) : MatchLen(pat, s, k) > 0}, LAMBDA starts :
    IF starts = {} THEN 0 ELSE Min(starts))

\* re.sub(pat, repl, s) from s[i] on: the scan copies the characters up to
\* the leftmost position at which pat matches, writes the replacement and
\* goes on after the match
RECURSIVE SubFrom(_, _, _)
SubFrom(pat, s, i) ==
  Bind(NextMatch(pat, s, i), LAMBDA j :
    IF j = 0 THEN SubSeq(s, i, Len(s))
    ELSE Bind(MatchLen(pat, s, j), LAMBDA n :
           SubSeq(s, i, j - 1) \o Replacement(pat, s, j, n) \o SubFrom(pat, s, j + n)))

ReSub(pat, s) == Bind(s, LAMBDA t : SubFrom(pat, t, 1))

(***************************************************************************)
(* The cleanup both branches of _clean_subtitle_text end with.             *)
(***************************************************************************)
\* re.match(r'^[\s\[\]{},"\':]+$', line) on a stripped, non-empty line
\* without "\n"
OnlySpecialChars(line) ==
  line # <<>> /\ \A k \in 1..Len(line) : line[k] \in SpecialLineChars

\* the lines kept by the loop over content.split('\n'), from line k on
RECURSIVE KeptFrom(_, _)
KeptFrom(lines, k) ==
  IF k > Len(lines) THEN <<>>
  ELSE Bind(Strip(lines[k]), LAMBDA line :
         IF line # <<>> /\ ~IsSpace(line) /\ ~OnlySpecialChars(line)
         THEN <<line>> \o KeptFrom(lines, k + 1)
         ELSE KeptFrom(lines, k + 1))

KeptLines(lines) == Bind(lines, LAMBDA ls : KeptFrom(ls, 1))

\* the four punctuation substitutions, in the order of the code
PunctuationSpacing(text) ==
  ReSub("comma_no_space",
    ReSub("space_before_comma",
      ReSub("punct_no_space",
        ReSub("space_before_punct", text))))

\* from the split into lines to the final strip
CommonCleanup(content) ==
  Strip(
    ReSub("spaces",
      PunctuationSpacing(
        ReSub("spaces",
          ReSub("newlines",
            JoinSpace(KeptLines(SplitLines(content))))))))

\* the removal of <...> tags and {...} blocks
StripTags(content) == ReSub("style_block", ReSub("tag", content))

\* the subtitle-markup path: the code after the JSON attempt
CleanMarkup(subtitle_content) ==
  CommonCleanup(
    ReSub("artifact_word",
      ReSub("artifact_char",
        ReSub("size",
          ReSub("align",
            ReSub("position",
              StripTags(
                ReSub("sequence_number",
                  ReSub("vtt_timestamp",
                    ReSub("srt_timestamp",
                      ReSub("vtt_header", subtitle_content)))))))))))

(***************************************************************************)
(* json.loads, as far as the normalizer depends on it: the JSON grammar    *)
(* over the model's characters.  A decoded value is a record               *)
(* [t, s, items]: t is its Python type, s the characters of a str, items   *)
(* the elements of a list or the <<key, value>> pairs of a dict.  The      *)
(* escapes \b, \f and \uXXXX name characters outside the model's alphabet  *)
(* and are not decoded.                                                    *)
(***************************************************************************)
JStr(cs)    == [t |-> "str",  s |-> cs,   items |-> <<>>]
JNum        == [t |-> "num",  s |-> <<>>, items |-> <<>>]
JBool       == [t |-> "bool", s |-> <<>>, items |-> <<>>]
JNull       == [t |-> "null", s |-> <<>>, items |-> <<>>]
JArr(xs)    == [t |-> "list", s |-> <<>>, items |-> xs]
JObj(pairs) == [t |-> "dict", s |-> <<>>, items |-> pairs]

\* the result of a scanning step: the value and the index after it
Scanned(v, next) == [ok |-> TRUE, v |-> v, next |-> next]
ScanError        == [ok |-> FALSE, v |-> JNull, next |-> 0]

\* WHITESPACE.match(s, i).end() of json.decoder
SkipWs(s, i) == i + RunLen(s, i, {" ", "\t", "\n", "\r"})

\* the character an escape names, "" for an escape the model does not decode
Unescape(c) ==
  CASE c = "\"" -> "\""
    [] c = "\\" -> "\\"
    [] c = "/"  -> "/"
    [] c = "n"  -> "\n"
    [] c = "t"  -> "\t"
    [] c = "r"  -> "\r"
    [] OTHER    -> ""

\* py_scanstring (strict), from the index after the opening quote
RECURSIVE ScanString(_, _)
ScanString(s, i) ==
  Bind(At(s, i), LAMBDA c :
    IF c = "" \/ c \in {"\t", "\n", "\r"} THEN ScanError
    ELSE IF c = "\"" THEN Scanned(<<>>, i + 1)
    ELSE IF c = "\\"
      THEN Bind(Unescape(At(s, i + 1)), LAMBDA u :
             IF u = "" THEN ScanError
             ELSE Bind(ScanString(s, i + 2), LAMBDA r :
                    IF ~r.ok THEN ScanError ELSE Scanned(<<u>> \o r.v, r.next)))
    ELSE Bind(ScanString(s, i + 1), LAMBDA r :
           IF ~r.ok THEN ScanError ELSE Scanned(<<c>> \o r.v, r.next)))

\* NUMBER_RE = (-?(?:0|[1-9]\d*))(\.\d+)?([eE][-+]?\d+)? : the index after
\* the match at s[i], 0 when there is none
NumberEnd(s, i) ==
  Bind(IF At(s, i) = "-" THEN i + 1 ELSE i, LAMBDA a :
    Bind(IF At(s, a) = "0" THEN a + 1
         ELSE IF At(s, a) \in Digits THEN a + RunLen(s, a, Digits)
         ELSE 0, LAMBDA b :
      IF b = 0 THEN 0
      ELSE Bind(IF At(s, b) = "." /\ At(s, b + 1) \in Digits
                THEN b + 1 + RunLen(s, b + 1, Digits)
                ELSE b, LAMBDA f :
             Bind(IF At(s, f + 1) \in {"+", "-"} THEN f + 2 ELSE f + 1, LAMBDA g :
               IF At(s, f) \in {"e", "E"} /\ At(s, g) \in Digits
               THEN g + RunLen(s, g, Digits)
               ELSE f))))

\* the constants of the scanner, in the order it tries them
ScanConstant(s, i) ==
  IF LiteralAt(s, i, <<"n", "u", "l", "l">>) THEN Scanned(JNull, i + 4)
  ELSE IF LiteralAt(s, i, <<"t", "r", "u", "e">>) THEN Scanned(JBool, i + 4)
  ELSE IF LiteralAt(s, i, <<"f", "a", "l", "s", "e">>) THEN Scanned(JBool, i + 5)
  ELSE Bind(NumberEnd(s, i), LAMBDA e :
    IF e # 0 THEN Scanned(JNum, e)
    ELSE IF LiteralAt(s, i, <<"N", "a", "N">>) THEN Scanned(JNum, i + 3)
    ELSE IF LiteralAt(s, i, <<"I", "n", "f", "i", "n", "i", "t", "y">>) THEN Scanned(JNum, i + 8)
    ELSE IF LiteralAt(s, i, <<"-", "I", "n", "f", "i", "n", "i", "t", "y">>) THEN Scanned(JNum, i + 9)
    ELSE ScanError)

RECURSIVE ScanOnce(_, _)
RECURSIVE ScanMembers(_, _)
RECURSIVE ScanElements(_, _)

\* JSONObject after the opening brace and white space: "key" : value , ... }
\* from the opening quote of a key at s[i]
ScanMembers(s, i) ==
  IF At(s, i) # "\"" THEN ScanError
  ELSE Bind(ScanString(s, i + 1), LAMBDA key :
    IF ~key.ok THEN ScanError
    ELSE Bind(SkipWs(s, key.next), LAMBDA colon :
      IF At(s, colon) # ":" THEN ScanError
      ELSE Bind(ScanOnce(s, SkipWs(s, colon + 1)), LAMBDA val :
        IF ~val.ok THEN ScanError
        ELSE Bind(SkipWs(s, val.next), LAMBDA after :
          IF At(s, after) = "}" THEN Scanned(<<(<<key.v, val.v>>)>>, after + 1)
          ELSE IF At(s, after) # "," THEN ScanError
          ELSE Bind(ScanMembers(s, SkipWs(s, after + 1)), LAMBDA rest :
            IF ~rest.ok THEN ScanError
            ELSE Scanned(<<(<<key.v, val.v>>)>> \o rest.v, rest.next))))))

\* JSONArray after the opening bracket and white space: value , ... ]
ScanElements(s, i) ==
  Bind(ScanOnce(s, i), LAMBDA val :
    IF ~val.ok THEN ScanError
    ELSE Bind(SkipWs(s, val.next), LAMBDA after :
      IF At(s, after) = "]" THEN Scanned(<<val.v>>, after + 1)
      ELSE IF At(s, after) # "," THEN ScanError
      ELSE Bind(ScanElements(s, SkipWs(s, after + 1)), LAMBDA rest :
        IF ~rest.ok THEN ScanError
        ELSE Scanned(<<val.v>> \o rest.v, rest.next))))

\* scan_once of json.scanner
ScanOnce(s, i) ==
  Bind(i, LAMBDA a :
    Bind(At(s, a), LAMBDA c :
      IF c = "\""
        THEN Bind(ScanString(s, a + 1), LAMBDA r :
               IF r.ok THEN Scanned(JStr(r.v), r.next) ELSE ScanError)
      ELSE IF c = "{"
        THEN Bind(SkipWs(s, a + 1), LAMBDA j :
               IF At(s, j) = "}" THEN Scanned(JObj(<<>>), j + 1)
               ELSE Bind(ScanMembers(s, j), LAMBDA r :
                      IF r.ok THEN Scanned(JObj(r.v), r.next) ELSE ScanError))
      ELSE IF c = "["
        THEN Bind(SkipWs(s, a + 1), LAMBDA j :
               IF At(s, j) = "]" THEN Scanned(JArr(<<>>), j + 1)
               ELSE Bind(ScanElements(s, j), LAMBDA r :
                      IF r.ok THEN Scanned(JArr(r.v), r.next) ELSE ScanError))
      ELSE ScanConstant(s, a)))

\* json.loads(s): [ok |-> FALSE] stands for JSONDecodeError
JsonLoads(s) ==
  Bind(s, LAMBDA t :
    Bind(ScanOnce(t, SkipWs(t, 1)), LAMBDA r :
      IF r.ok /\ SkipWs(t, r.next) = Len(t) + 1 THEN r ELSE ScanError))

(***************************************************************************)
(* The Python operations the JSON branch applies to the decoded value.     *)
(* A result with ok = FALSE stands for the TypeError Python raises.        *)
(***************************************************************************)
PyValue(v)  == [ok |-> TRUE, v |-> v]
PyTypeError == [ok |-> FALSE, v |-> JNull]

\* the value of key in the dict built from pairs: that of the last pair
\* with the key
DictGet(pairs, key) ==
  pairs[Max({k \in 1..Len(pairs) : pairs[k][1] = key})][2]

\* the keys of the dict built from pairs, each once, in insertion order
RECURSIVE DictKeysFrom(_, _)
DictKeysFrom(pairs, k) ==
  IF k > Len(pairs) THEN <<>>
  ELSE IF \E j \in 1..(k - 1) : pairs[j][1] = pairs[k][1] THEN DictKeysFrom(pairs, k + 1)
  ELSE <<JStr(pairs[k][1])>> \o DictKeysFrom(pairs, k + 1)

DictKeys(pairs) == DictKeysFrom(pairs, 1)

\* name in x : "True", "False" or "TypeError"
PyIn(name, x) ==
  CASE x.t = "dict" -> IF \E k \in 1..Len(x.items) : x.items[k][1] = name
                       THEN "True" ELSE "False"
    [] x.t = "list" -> IF \E k \in 1..Len(x.items) :
                            x.items[k].t = "str" /\ x.items[k].s = name
                       THEN "True" ELSE "False"
    [] x.t = "str"  -> IF Contains(x.s, name) THEN "True" ELSE "False"
    [] OTHER        -> "TypeError"

\* x[name], after name in x was found true
PyGetItem(x, name) ==
  IF x.t = "dict" THEN PyValue(DictGet(x.items, name)) ELSE PyTypeError

\* the elements a for loop over x visits, as a list value
PyIter(x) ==
  CASE x.t = "dict" -> PyValue(JArr(DictKeys(x.items)))
    [] x.t = "list" -> PyValue(x)
    [] x.t = "str"  -> PyValue(JArr([k \in 1..Len(x.s) |-> JStr(<<x.s[k]>>)]))
    [] OTHER        -> PyTypeError

\* the inner loop from segment k on: the values appended to text_parts
RECURSIVE SegmentParts(_, _)
SegmentParts(segs, k) ==
  IF k > Len(segs) THEN PyValue(JArr(<<>>))
  ELSE Bind(PyIn(<<"u", "t", "f", "8">>, segs[k]), LAMBDA has :
    IF has = "TypeError" THEN PyTypeError
    ELSE Bind(IF has = "True" THEN PyGetItem(segs[k], <<"u", "t", "f", "8">>)
              ELSE PyValue(JNull), LAMBDA got :
      IF ~got.ok THEN PyTypeError
      ELSE Bind(SegmentParts(segs, k + 1), LAMBDA rest :
        IF ~rest.ok THEN PyTypeError
        ELSE IF has = "True" THEN PyValue(JArr(<<got.v>> \o rest.v.items))
        ELSE rest)))

\* the outer loop from event k on: the values appended to text_parts
RECURSIVE EventParts(_, _)
EventParts(events, k) ==
  IF k > Len(events) THEN PyValue(JArr(<<>>))
  ELSE Bind(PyIn(<<"s", "e", "g", "s">>, events[k]), LAMBDA has :
    IF has = "TypeError" THEN PyTypeError
    ELSE Bind(IF has = "True" THEN PyGetItem(events[k], <<"s", "e", "g", "s">>)
              ELSE PyValue(JArr(<<>>)), LAMBDA got :
      Bind(IF got.ok THEN PyIter(got.v) ELSE PyTypeError, LAMBDA segs :
        Bind(IF segs.ok THEN SegmentParts(segs.v.items, 1) ELSE PyTypeError, LAMBDA here :
          IF ~here.ok THEN PyTypeError
          ELSE Bind(EventParts(events, k + 1), LAMBDA rest :
            IF ~rest.ok THEN PyTypeError
            ELSE PyValue(JArr(here.v.items \o rest.v.items)))))))

RECURSIVE ConcatFrom(_, _)
ConcatFrom(parts, k) ==
  IF k > Len(parts) THEN <<>> ELSE parts[k] \o ConcatFrom(parts, k + 1)

\* ''.join(text_parts): the parts joined without a separator
JoinPartsNoSpace(parts) ==
  IF \A k \in 1..Len(parts) : parts[k].t = "str"
  THEN PyValue(JStr(ConcatFrom([k \in 1..Len(parts) |-> parts[k].s], 1)))
  ELSE PyTypeError

\* ' '.join(text_parts): every part must be a str
JoinParts(parts) ==
  IF \A k \in 1..Len(parts) : parts[k].t = "str"
  THEN PyValue(JStr(JoinSpace([k \in 1..Len(parts) |-> parts[k].s])))
  ELSE PyTypeError

(***************************************************************************)
(* _clean_subtitle_text.  Its result is the str it returns or the          *)
(* exception that leaves it.                                               *)
(***************************************************************************)
Returned(cs) == [kind |-> "str",   s |-> cs,   exc |-> ""]
Raised(e)    == [kind |-> "raise", s |-> <<>>, exc |-> e]
NoneValue    == [kind |-> "none",  s |-> <<>>, exc |-> ""]

\* the format test: stripped payload starts with '{' or '"events"' occurs
LooksLikeJson(subtitle_content) ==
  \/ StartsWith(Strip(subtitle_content), <<"{">>)
  \/ Contains(subtitle_content, <<"\"", "e", "v", "e", "n", "t", "s", "\"">>)

\* the loops over data['events'] and the join: raw_text, or the TypeError
CollectText(data) ==
  Bind(PyGetItem(data, <<"e", "v", "e", "n", "t", "s">>), LAMBDA got :
    Bind(IF got.ok THEN PyIter(got.v) ELSE PyTypeError, LAMBDA events :
      Bind(IF events.ok THEN EventParts(events.v.items, 1) ELSE PyTypeError, LAMBDA parts :
        IF parts.ok THEN JoinParts(parts.v.items) ELSE PyTypeError)))

\* the try block: the text returned, the TypeError that escapes it, or
\* NoneValue when control falls through to the markup path (JSONDecodeError
\* caught, or no 'events' in data)
JsonBranch(subtitle_content) ==
  Bind(JsonLoads(subtitle_content), LAMBDA data :
    IF ~data.ok THEN NoneValue
    ELSE Bind(PyIn(<<"e", "v", "e", "n", "t", "s">>, data.v), LAMBDA has :
      IF has = "TypeError" THEN Raised("TypeError")
      ELSE IF has = "False" THEN NoneValue
      ELSE Bind(CollectText(data.v), LAMBDA raw_text :
        IF ~raw_text.ok THEN Raised("TypeError")
        ELSE Returned(CommonCleanup(StripTags(raw_text.v.s))))))

CleanSubtitleText(subtitle_content) ==
  Bind(subtitle_content, LAMBDA c :
    IF c = <<>> THEN Returned(<<>>)
    ELSE Bind(IF LooksLikeJson(c) THEN JsonBranch(c) ELSE NoneValue, LAMBDA json :
      IF json.kind # "none" THEN json ELSE Returned(CleanMarkup(c))))

(***************************************************************************)
(* The pipeline.  A subtitle dict of yt-dlp is the sequence of its         *)
(* language keys in insertion order; every language maps to the same list  *)
(* of format descriptors, of which only the presence of 'url' matters.     *)
(***************************************************************************)
VARIABLES
  url,        \* what urlparse makes of the url argument
  language,   \* the language argument of extract_subtitles
  pc,         \* the statement the call is at
  manual,     \* info['subtitles']: language keys in insertion order
  automatic,  \* info['automatic_captions']: language keys in insertion order
  formats,    \* the format list of a language: TRUE for a descriptor with a url
  tier,       \* the attempt of _resolve_subtitle_priority in progress, 1..4
  call,       \* the arguments of the _get_subtitle_from_info call in progress
  track,      \* the entry that call passed to _download_subtitle_content
  pos,        \* the index of the descriptor the download loop is at
  call_log,   \* what the download loop did with each descriptor so far
  dl_result,  \* the return value of the last _get_subtitle_from_info call
  downloads,  \* the entries passed to _download_subtitle_content so far
  content,    \* the return value of _extract_subtitle_content
  used,       \* the entry whose payload _resolve_subtitle_priority returned
  result,     \* the return value of extract_subtitles
  run,        \* 1, or 2 in the second call with the same arguments
  prev_used,  \* used at the end of the first call
  response,   \* the status of the endpoint's response, once it has answered
  payload,    \* the argument of a direct _clean_subtitle_text call
  doc,        \* the caption document payload was serialized from, if any
  out1,       \* _clean_subtitle_text(payload)
  out2,       \* _clean_subtitle_text(out1)
  nstep       \* the number of normalizer calls made

pipeline_vars == <<url, language, pc, manual, automatic, formats, tier, call, track,
                   pos, call_log, dl_result, downloads, content, used, result, run,
                   prev_used, response>>

norm_vars == <<payload, doc, out1, out2, nstep>>

vars == <<pipeline_vars, norm_vars>>

\* the largest number of languages in a subtitle dict
MaxKeys == 2

\* the largest number of descriptors in a format list
MaxFormats == 2

EN    == <<"e", "n">>
EN_US == <<"e", "n", "-", "U", "S">>
FR    == <<"f", "r">>

\* the language keys of the catalogs
LanguageTags == {EN, EN_US, FR}

\* the languages a caller asks for
RequestedLanguages == {EN, FR}

\* the sequences without repetition of at most n elements of S
InjectiveSeqs(S, n) ==
  UNION {{q \in [1..k -> S] : \A i, j \in 1..k : i # j => q[i] # q[j]} : k \in 0..n}

SubtitleDicts == InjectiveSeqs(LanguageTags, MaxKeys)

FormatLists == UNION {[1..k -> BOOLEAN] : k \in 0..MaxFormats}

\* urlparse(url): whether it raised, and whether scheme and netloc are non-empty
Urls == [parses : BOOLEAN, scheme : BOOLEAN, netloc : BOOLEAN]

\* the bodies a subtitle location serves
TextBody == <<"H", "i", " ", ".">>
NullEventsBody == <<"{", "\"", "e", "v", "e", "n", "t", "s", "\"", ":", "n", "u", "l", "l", "}">>
Bodies == {<<>>, TextBody, NullEventsBody}

\* what urlopen(url).read().decode('utf-8') does
FetchOutcomes == {[kind |-> "URLError", body |-> <<>>],
                  [kind |-> "UnicodeDecodeError", body |-> <<>>]}
                 \cup {[kind |-> "body", body |-> b] : b \in Bodies}

NoTrack == [dict |-> "none", key |-> <<>>]
NoCall  == [dict |-> "none", language |-> <<>>]

\* Python truth of an Optional[str]
Truthy(v) == v.kind = "str" /\ v.s # <<>>

\* _validate_url testing the scheme only
ValidateUrlSchemeOnly(u) == u.parses /\ u.scheme

\* _validate_url
ValidateUrl(u) == u.parses /\ u.scheme /\ u.netloc

\* the dict the tier's call of _get_subtitle_from_info searches
TierDictName(t) == IF t \in {1, 3} THEN "manual" ELSE "automatic"

DictOf(name, m, a) == IF name = "manual" THEN m ELSE a

\* the guard of the tier: 'if subtitles:' and 'if automatic_captions:'
TierGuard(t, m, a) == t \in {1, 2} \/ DictOf(TierDictName(t), m, a) # <<>>

\* the language the tier passes: the requested one, then next(iter(keys))
TierLanguage(t, m, a, lang) ==
  IF t \in {1, 2} THEN lang ELSE DictOf(TierDictName(t), m, a)[1]

\* the for loop over subtitle_dict.keys(): the first index from i on whose
\* key starts with language + "-", 0 when there is none
RECURSIVE FirstVariant(_, _, _)
FirstVariant(subtitle_dict, lang, i) ==
  IF i > Len(subtitle_dict) THEN 0
  ELSE IF StartsWith(subtitle_dict[i], lang \o <<"-">>) THEN i
  ELSE FirstVariant(subtitle_dict, lang, i + 1)

\* _get_subtitle_from_info with the variant loop moved before the exact test
GetSubtitleIndexVariantFirst(subtitle_dict, lang) ==
  IF FirstVariant(subtitle_dict, lang, 1) # 0
  THEN FirstVariant(subtitle_dict, lang, 1)
  ELSE IF \E i \in 1..Len(subtitle_dict) : subtitle_dict[i] = lang
  THEN CHOOSE i \in 1..Len(subtitle_dict) : subtitle_dict[i] = lang
  ELSE IF subtitle_dict # <<>> THEN 1
  ELSE 0

\* _get_subtitle_from_info: the index of the entry it downloads, 0 for None
GetSubtitleIndex(subtitle_dict, lang) ==
  IF \E i \in 1..Len(subtitle_dict) : subtitle_dict[i] = lang
  THEN CHOOSE i \in 1..Len(subtitle_dict) : subtitle_dict[i] = lang
  ELSE IF FirstVariant(subtitle_dict, lang, 1) # 0
  THEN FirstVariant(subtitle_dict, lang, 1)
  ELSE IF subtitle_dict # <<>> THEN 1
  ELSE 0

\* lines 46-57 without 'else: return ""': the falsy content itself is returned
ExtractResultPropagates(subtitle_content) ==
  IF Truthy(subtitle_content)
  THEN Bind(CleanSubtitleText(subtitle_content.s), LAMBDA cleaned :
         IF cleaned.kind = "raise" THEN Returned(<<>>) ELSE cleaned)
  ELSE subtitle_content

\* lines 46-57 of extract_subtitles: the cleaned content, "" for no content
\* and "" for any exception
ExtractResult(subtitle_content) ==
  IF Truthy(subtitle_content)
  THEN Bind(CleanSubtitleText(subtitle_content.s), LAMBDA cleaned :
         IF cleaned.kind = "raise" THEN Returned(<<>>) ELSE cleaned)
  ELSE Returned(<<>>)

\* the status codes of extract_subtitles_endpoint
HttpOk          == 200
HttpNotFound    == 404
HttpServerError == 500

\* no response yet
NoResponse == 0

\* lines 211-264 of api.py after run_subtitle_extraction ended with outcome r:
\* 404 for an empty or all-whitespace text, 500 for an exception, else the
\* SubtitleResponse
EndpointStatus(r) ==
  IF r.kind = "raise" THEN HttpServerError
  ELSE IF r.s = <<>> \/ Strip(r.s) = <<>> THEN HttpNotFound
  ELSE HttpOk

NormIdle ==
  /\ payload = <<>>
  /\ doc = [is_doc |-> FALSE, events |-> <<>>]
  /\ out1 = NoneValue
  /\ out2 = NoneValue
  /\ nstep = 0

PipelineIdle ==
  /\ pc = "validate"
  /\ manual = <<>>
  /\ automatic = <<>>
  /\ formats = <<>>
  /\ tier = 0
  /\ call = NoCall
  /\ track = NoTrack
  /\ pos = 0
  /\ call_log = <<>>
  /\ dl_result = NoneValue
  /\ downloads = <<>>
  /\ content = NoneValue
  /\ used = NoTrack
  /\ result = NoneValue
  /\ run = 1
  /\ prev_used = NoTrack
  /\ response = NoResponse

\* extract_subtitles(url, language) is called
Init ==
  /\ url \in Urls
  /\ language \in RequestedLanguages
  /\ PipelineIdle
  /\ NormIdle

\* lines 42-44: an invalid url ends the call with ""
Validate ==
  /\ pc = "validate"
  /\ IF ValidateUrl(url)
     THEN pc' = "extract_info" /\ UNCHANGED result
     ELSE pc' = "done" /\ result' = Returned(<<>>)
  /\ UNCHANGED <<url, language, manual, automatic, formats, tier, call, track, pos,
                 call_log, dl_result, downloads, content, used, run, prev_used, response>>
  /\ UNCHANGED norm_vars

\* lines 166-170: the backend returns the info dict
ExtractInfo ==
  /\ pc = "extract_info"
  /\ \E m \in SubtitleDicts, a \in SubtitleDicts, f \in FormatLists :
       /\ manual' = m
       /\ automatic' = a
       /\ formats' = f
  /\ tier' = 1
  /\ pc' = "resolve"
  /\ UNCHANGED <<url, language, call, track, pos, call_log, dl_result, downloads,
                 content, used, result, run, prev_used, response>>
  /\ UNCHANGED norm_vars

\* lines 175-180: extract_info raises and _extract_subtitle_content returns None
ExtractInfoRaises ==
  /\ pc = "extract_info"
  /\ \E e \in {"DownloadError", "Exception"} : content' = NoneValue
  /\ pc' = "deliver"
  /\ UNCHANGED <<url, language, manual, automatic, formats, tier, call, track, pos,
                 call_log, dl_result, downloads, used, result, run, prev_used, response>>
  /\ UNCHANGED norm_vars

\* one attempt of _resolve_subtitle_priority up to the choice of the entry
\* by _get_subtitle_from_info
Resolve ==
  /\ pc = "resolve"
  /\ tier \in 1..4
  /\ IF ~TierGuard(tier, manual, automatic)
     THEN /\ tier' = tier + 1
          /\ UNCHANGED <<pc, call, track, pos, call_log, dl_result, downloads>>
     ELSE LET name == TierDictName(tier)
              d    == DictOf(name, manual, automatic)
              lang == TierLanguage(tier, manual, automatic, language)
              k    == GetSubtitleIndex(d, lang)
          IN  /\ call' = [dict |-> name, language |-> lang]
              /\ call_log' = <<>>
              /\ UNCHANGED tier
              /\ IF k = 0
                 THEN /\ track' = NoTrack
                      /\ dl_result' = NoneValue
                      /\ pc' = "tier_return"
                      /\ UNCHANGED <<pos, downloads>>
                 ELSE /\ track' = [dict |-> name, key |-> d[k]]
                      /\ downloads' = Append(downloads, [dict |-> name, key |-> d[k]])
                      /\ pos' = 1
                      /\ pc' = "download"
                      /\ UNCHANGED dl_result
  /\ UNCHANGED <<url, language, manual, automatic, formats, content, used, result,
                 run, prev_used, response>>
  /\ UNCHANGED norm_vars

\* line 145: all four attempts failed
ResolveNone ==
  /\ pc = "resolve"
  /\ tier = 5
  /\ content' = NoneValue
  /\ pc' = "deliver"
  /\ UNCHANGED <<url, language, manual, automatic, formats, tier, call, track, pos,
                 call_log, dl_result, downloads, used, result, run, prev_used, response>>
  /\ UNCHANGED norm_vars

\* lines 225-234: one iteration of the loop of _download_subtitle_content
NextDescriptor ==
  /\ pc = "download"
  /\ pos <= Len(formats)
  /\ IF ~formats[pos]
     THEN /\ call_log' = Append(call_log, [pos |-> pos, did |-> "no_url"])
          /\ pos' = pos + 1
          /\ UNCHANGED <<pc, dl_result>>
     ELSE \E o \in FetchOutcomes :
            IF o.kind = "body"
            THEN /\ call_log' = Append(call_log, [pos |-> pos, did |-> "returned"])
                 /\ dl_result' = Returned(o.body)
                 /\ pc' = "tier_return"
                 /\ UNCHANGED pos
            ELSE /\ call_log' = Append(call_log, [pos |-> pos, did |-> "raised"])
                 /\ pos' = pos + 1
                 /\ UNCHANGED <<pc, dl_result>>
  /\ UNCHANGED <<url, language, manual, automatic, formats, tier, call, track,
                 downloads, content, used, result, run, prev_used, response>>
  /\ UNCHANGED norm_vars

\* line 236: the loop ends without a return
DownloadExhausted ==
  /\ pc = "download"
  /\ pos > Len(formats)
  /\ dl_result' = NoneValue
  /\ pc' = "tier_return"
  /\ UNCHANGED <<url, language, manual, automatic, formats, tier, call, track, pos,
                 call_log, downloads, content, used, result, run, prev_used, response>>
  /\ UNCHANGED norm_vars

\* 'if subtitle_content: return subtitle_content' after each attempt
TierReturn ==
  /\ pc = "tier_return"
  /\ IF Truthy(dl_result)
     THEN /\ content' = dl_result
          /\ used' = track
          /\ pc' = "deliver"
          /\ UNCHANGED tier
     ELSE /\ tier' = tier + 1
          /\ pc' = "resolve"
          /\ UNCHANGED <<content, used>>
  /\ UNCHANGED <<url, language, manual, automatic, formats, call, track, pos,
                 call_log, dl_result, downloads, result, run, prev_used, response>>
  /\ UNCHANGED norm_vars

\* lines 46-57: extract_subtitles returns
Deliver ==
  /\ pc = "deliver"
  /\ result' = ExtractResult(content)
  /\ pc' = "done"
  /\ UNCHANGED <<url, language, manual, automatic, formats, tier, call, track, pos,
                 call_log, dl_result, downloads, content, used, run, prev_used, response>>
  /\ UNCHANGED norm_vars

\* extract_subtitles_endpoint answers the request whose url its validator
\* accepted, after the call of extract_subtitles has ended
Respond ==
  /\ pc = "done"
  /\ ValidateUrl(url)
  /\ response' = EndpointStatus(result)
  /\ pc' = "responded"
  /\ UNCHANGED <<url, language, manual, automatic, formats, tier, call, track, pos,
                 call_log, dl_result, downloads, content, used, result, run, prev_used>>
  /\ UNCHANGED norm_vars

Next ==
  \/ Validate
  \/ ExtractInfo
  \/ ExtractInfoRaises
  \/ Resolve
  \/ ResolveNone
  \/ NextDescriptor
  \/ DownloadExhausted
  \/ TierReturn
  \/ Deliver
  \/ Respond

Spec == Init /\ [][Next]_vars

\* extract_subtitles is called again with the same url and language, and the
\* backend returns the same info dict
Again ==
  /\ pc = "done"
  /\ run = 1
  /\ tier # 0
  /\ run' = 2
  /\ prev_used' = used
  /\ pc' = "resolve"
  /\ tier' = 1
  /\ call' = NoCall
  /\ track' = NoTrack
  /\ pos' = 0
  /\ call_log' = <<>>
  /\ dl_result' = NoneValue
  /\ downloads' = <<>>
  /\ content' = NoneValue
  /\ used' = NoTrack
  /\ result' = NoneValue
  /\ UNCHANGED <<url, language, manual, automatic, formats, response>>
  /\ UNCHANGED norm_vars

NextTwice ==
  \/ Next
  \/ Again

SpecTwice == Init /\ [][NextTwice]_vars

(***************************************************************************)
(* Direct calls of _clean_subtitle_text: one call on a payload and one     *)
(* call on the text the first call returned.                               *)
(***************************************************************************)

\* the largest length of a free-form payload
MaxLen == 3

\* the largest number of events in a caption document
MaxEvents == 2

\* the largest number of segments in an event
MaxSegs == 1

\* the characters of the free-form payloads
Alphabet == {"a", "1", ".", ",", " ", "\n"}

ShortTexts == UNION {[1..k -> Alphabet] : k \in 0..MaxLen}

\* the VTT header scenario
VttExample ==
  <<"W", "E", "B", "V", "T", "T", "\n", "\n", "0", "0", ":", "0", "0", ":", "0", "1",
    ".", "0", "0", "0", " ", "-", "-", ">", " ", "0", "0", ":", "0", "0", ":", "0",
    "2", ".", "0", "0", "0", "\n", "<", "b", ">", "H", "i", "<", "/", "b", ">", " ",
    ",", " ", "w", "o", "r", "l", "d", "\n">>

\* the SRT scenario
SrtExample ==
  <<"1", "\n", "0", "0", ":", "0", "0", ":", "0", "1", ",", "0", "0", "0", " ", "-",
    "-", ">", " ", "0", "0", ":", "0", "0", ":", "0", "2", ",", "0", "0", "0", "\n",
    "H", "e", "l", "l", "o", " ", "t", "h", "e", "r", "e", ".", "\n", "\n", "2", "\n",
    "0", "0", ":", "0", "0", ":", "0", "2", ",", "0", "0", "0", " ", "-", "-", ">",
    " ", "0", "0", ":", "0", "0", ":", "0", "3", ",", "0", "0", "0", "\n", "G", "o",
    "o", "d", "b", "y", "e", "!", "\n">>

\* the JSON round-trip scenario
JsonExample ==
  <<"{", "\"", "e", "v", "e", "n", "t", "s", "\"", ":", "[", "{", "\"", "s", "e", "g",
    "s", "\"", ":", "[", "{", "\"", "u", "t", "f", "8", "\"", ":", "\"", "H", "e", "l",
    "l", "o", "\"", "}", "]", "}", ",", " ", "{", "\"", "s", "e", "g", "s", "\"", ":",
    "[", "{", "\"", "u", "t", "f", "8", "\"", ":", "\"", "w", "o", "r", "l", "d", ".",
    "\"", "}", "]", "}", "]", "}">>

\* valid JSON whose top level is a list
ListBody ==
  <<"[", "\"", "e", "v", "e", "n", "t", "s", "\"", "]">>

\* valid JSON whose events holds a number
NumberEventBody ==
  <<"{", "\"", "e", "v", "e", "n", "t", "s", "\"", ":", "[", "1", "]", "}">>

\* valid JSON whose utf8 is a number
NumberTextBody ==
  <<"{", "\"", "e", "v", "e", "n", "t", "s", "\"", ":", "[", "{", "\"", "s", "e", "g",
    "s", "\"", ":", "[", "{", "\"", "u", "t", "f", "8", "\"", ":", "1", "}", "]", "}",
    "]", "}">>

\* a caption document whose text has a comma
CommaTextBody ==
  <<"{", "\"", "e", "v", "e", "n", "t", "s", "\"", ":", "[", "{", "\"", "s", "e", "g",
    "s", "\"", ":", "[", "{", "\"", "u", "t", "f", "8", "\"", ":", "\"", "a", " ", ",",
    "b", "\"", "}", "]", "}", "]", "}">>

\* the word 'events' inside the word 'events'
NestedEventsWord ==
  <<"e", "v", "e", "v", "e", "n", "t", "s", "e", "n", "t", "s">>

\* runs of adjacent punctuation
WaitWhat == <<"W", "a", "i", "t", ".", ".", ".", "w", "h", "a", "t">>
PunctRun == <<"a", " ", ",", ".", "b">>

Examples == {VttExample, SrtExample, JsonExample, NullEventsBody, ListBody,
             NumberEventBody, NumberTextBody, CommaTextBody, NestedEventsWord,
             WaitWhat, PunctRun}

\* the utf8 texts of the caption documents
PlainFragment == <<"a">>
TagFragment   == <<"<", "i", ">", "b", ".">>
Fragments     == {PlainFragment, TagFragment}

\* a segment object, with or without the key 'utf8'
Segs == {[has_utf8 |-> FALSE, utf8 |-> <<>>]}
        \cup {[has_utf8 |-> TRUE, utf8 |-> f] : f \in Fragments}

SegLists == UNION {[1..k -> Segs] : k \in 0..MaxSegs}

\* an event object, with or without the key 'segs'
Events == {[has_segs |-> FALSE, segs |-> <<>>]}
          \cup {[has_segs |-> TRUE, segs |-> q] : q \in SegLists}

\* the lists data['events'] of the well-typed caption documents
CaptionDocs == UNION {[1..k -> Events] : k \in 0..MaxEvents}

NoDoc == [is_doc |-> FALSE, events |-> <<>>]

\* the JSON text of a caption document
SegJson(seg) ==
  IF seg.has_utf8
  THEN <<"{", "\"", "u", "t", "f", "8", "\"", ":", " ", "\"">> \o seg.utf8 \o <<"\"", "}">>
  ELSE <<"{", "}">>

RECURSIVE SegsJson(_, _)
SegsJson(segs, k) ==
  IF k > Len(segs) THEN <<>>
  ELSE IF k = Len(segs) THEN SegJson(segs[k])
  ELSE SegJson(segs[k]) \o <<",", " ">> \o SegsJson(segs, k + 1)

EventJson(event) ==
  IF event.has_segs
  THEN <<"{", "\"", "s", "e", "g", "s", "\"", ":", " ", "[">>
       \o SegsJson(event.segs, 1) \o <<"]", "}">>
  ELSE <<"{", "}">>

RECURSIVE EventsJson(_, _)
EventsJson(events, k) ==
  IF k > Len(events) THEN <<>>
  ELSE IF k = Len(events) THEN EventJson(events[k])
  ELSE EventJson(events[k]) \o <<",", " ">> \o EventsJson(events, k + 1)

CaptionJson(events) ==
  <<"{", "\"", "e", "v", "e", "n", "t", "s", "\"", ":", " ", "[">>
  \o EventsJson(events, 1) \o <<"]", "}">>

\* the arguments of the direct calls
NormInputs ==
  {[payload |-> t, doc |-> NoDoc] : t \in ShortTexts \cup Examples}
  \cup {[payload |-> CaptionJson(d), doc |-> [is_doc |-> TRUE, events |-> d]] :
          d \in CaptionDocs}

ValidUrl == [parses |-> TRUE, scheme |-> TRUE, netloc |-> TRUE]

InitNorm ==
  /\ url = ValidUrl
  /\ language = EN
  /\ PipelineIdle
  /\ \E inp \in NormInputs :
       /\ payload = inp.payload
       /\ doc = inp.doc
  /\ out1 = NoneValue
  /\ out2 = NoneValue
  /\ nstep = 0

\* _clean_subtitle_text(payload)
Normalize ==
  /\ nstep = 0
  /\ out1' = CleanSubtitleText(payload)
  /\ nstep' = 1
  /\ UNCHANGED <<payload, doc, out2>>
  /\ UNCHANGED pipeline_vars

\* _clean_subtitle_text on the text the first call returned
Renormalize ==
  /\ nstep = 1
  /\ out1.kind = "str"
  /\ out2' = CleanSubtitleText(out1.s)
  /\ nstep' = 2
  /\ UNCHANGED <<payload, doc, out1>>
  /\ UNCHANGED pipeline_vars

NextNorm ==
  \/ Normalize
  \/ Renormalize

SpecNorm == InitNorm /\ [][NextNorm]_vars


(***************************************************************************)
(* Properties.                                                             *)
(***************************************************************************)

HasKey(subtitle_dict, lang) ==
  \E i \in 1..Len(subtitle_dict) : subtitle_dict[i] = lang

HasVariant(subtitle_dict, lang) ==
  \E i \in 1..Len(subtitle_dict) : StartsWith(subtitle_dict[i], lang \o <<"-">>)

\* the catalogs of C1: the manual dict is non-empty and has no key for the
\* language, the automatic dict has one
ManualOtherAutomaticRequested ==
  /\ manual # <<>>
  /\ ~HasKey(manual, language)
  /\ ~HasVariant(manual, language)
  /\ HasKey(automatic, language) \/ HasVariant(automatic, language)

\* C1: in a catalog whose manual dict is non-empty without a key equal to the
\* language or starting with language + "-", and whose automatic dict has
\* such a key, the first track fetched, and the track used, is the automatic
\* track of the language, not the first manual track of another language.
C1_AutomaticRequestedBeforeManualAny ==
  (ManualOtherAutomaticRequested /\ downloads # <<>>) =>
    /\ downloads[1].dict = "automatic"
    /\ downloads[1].key = language \/ StartsWith(downloads[1].key, language \o <<"-">>)
    /\ used # NoTrack => used = downloads[1]

\* C2: _clean_subtitle_text returns a string and never raises, for every
\* payload, those that are valid JSON of an unexpected shape included.
C2_NormalizeNeverRaises ==
  nstep >= 1 => out1.kind = "str"

\* the download loop has ended for the entry of the call in progress
FetchEnded == pc = "tier_return" /\ track # NoTrack

\* C3: the download loop visits the descriptors in order and returns the
\* payload of the first one fetched with a non-empty response; a descriptor
\* without url, whose fetch raises or whose response is empty is passed over;
\* the result is None exactly when every descriptor was passed over.
C3_FetchFirstNonEmpty ==
  FetchEnded =>
    /\ \A k \in 1..Len(call_log) : call_log[k].pos = k
    /\ \/ /\ Truthy(dl_result)
          /\ call_log[Len(call_log)].did = "returned"
       \/ /\ dl_result = NoneValue
          /\ Len(call_log) = Len(formats)

\* C4: when the manual dict has the key of the requested language, no
\* automatic track is used, whatever the fetches of the manual track did.
C4_ManualRequestedNeverAutomatic ==
  (pc = "done" /\ HasKey(manual, language)) => used.dict # "automatic"

\* C5: two calls with the same catalog and language that both obtain a
\* payload use the same track, whatever the fetches did in each.
C5_SameTrackBothRuns ==
  (run = 2 /\ pc = "done" /\ used # NoTrack /\ prev_used # NoTrack) => used = prev_used

\* a _get_subtitle_from_info call has chosen its entry
CallChosen == pc \in {"download", "tier_return"} /\ call # NoCall

\* the entry C6 describes for the dict d and the language lang, given as the
\* condition on the index i of the entry chosen
MatchedAt(d, lang, i) ==
  IF HasKey(d, lang) THEN d[i] = lang
  ELSE IF HasVariant(d, lang)
    THEN /\ StartsWith(d[i], lang \o <<"-">>)
         /\ \A j \in 1..(i - 1) : ~StartsWith(d[j], lang \o <<"-">>)
  ELSE i = 1

\* C6: _get_subtitle_from_info chooses the entry whose key is the language
\* if there is one, else the first entry whose key starts with language +
\* "-", else the first entry; it chooses none only for an empty dict.  With
\* manual = {} and automatic = {"fr": ds} a request for "en" fetches and
\* uses the "fr" entry only.
C6_PerMappingMatch ==
  /\ CallChosen =>
       /\ track = NoTrack <=> DictOf(call.dict, manual, automatic) = <<>>
       /\ track # NoTrack =>
            /\ track.dict = call.dict
            /\ \E i \in 1..Len(DictOf(call.dict, manual, automatic)) :
                 /\ DictOf(call.dict, manual, automatic)[i] = track.key
                 /\ MatchedAt(DictOf(call.dict, manual, automatic), call.language, i)
  /\ (manual = <<>> /\ automatic = <<FR>> /\ language = EN) =>
       /\ \A k \in 1..Len(downloads) : downloads[k] = [dict |-> "automatic", key |-> FR]
       /\ used # NoTrack => used = [dict |-> "automatic", key |-> FR]

\* a call chose the exact key although a variant key comes first in the dict
C6_Witness ==
  /\ CallChosen
  /\ call.language = EN
  /\ DictOf(call.dict, manual, automatic) = <<EN_US, EN>>
  /\ track.key = EN

HiCommaWorld == <<"H", "i", ",", " ", "w", "o", "r", "l", "d">>

\* C8: on the markup path the commas of the text are kept with their spacing
\* fixed: the VTT header scenario normalizes to "Hi, world".
C8_VttCommaKept ==
  (nstep >= 1 /\ payload = VttExample) => out1 = Returned(HiCommaWorld)

\* the utf8 texts of a caption document in document order
RECURSIVE SegFragments(_, _)
SegFragments(segs, k) ==
  IF k > Len(segs) THEN <<>>
  ELSE (IF segs[k].has_utf8 THEN <<segs[k].utf8>> ELSE <<>>) \o SegFragments(segs, k + 1)

RECURSIVE DocFragments(_, _)
DocFragments(events, k) ==
  IF k > Len(events) THEN <<>>
  ELSE (IF events[k].has_segs THEN SegFragments(events[k].segs, 1) ELSE <<>>)
       \o DocFragments(events, k + 1)

HelloWorld == <<"H", "e", "l", "l", "o", " ", "w", "o", "r", "l", "d", ".">>

C10_Idempotent ==
  nstep = 2 => out2 = out1

\* the backend lookup raised: the call ended without an info dict
BackendRaised == ValidateUrl(url) /\ tier = 0 /\ pc \in {"deliver", "done", "responded"}

\* C11: when the backend lookup raises, the result of extract_subtitles is
\* not the empty text an empty catalog gives, and the endpoint answers with a
\* 5xx status, not the 404 an empty catalog gives.
C11_UpstreamErrorDistinguishable ==
  /\ (BackendRaised /\ pc \in {"done", "responded"}) => result # Returned(<<>>)
  /\ (BackendRaised /\ pc = "responded") => response >= HttpServerError

\* the url lacks a scheme or a network location, or urlparse rejected it
UrlLacksPart == ~url.parses \/ ~url.scheme \/ ~url.netloc

PunctuationMarks == SentencePunct \cup {","}

\* single-line, whitespace-normalized and punctuation-spaced
WellSpaced(s) ==
  /\ \A i \in 1..Len(s) : s[i] \in Whitespace => s[i] = " "
  /\ \A i \in 1..(Len(s) - 1) : ~(s[i] = " " /\ s[i + 1] = " ")
  /\ s # <<>> => (s[1] # " " /\ s[Len(s)] # " ")
  /\ \A i \in 1..Len(s) :
       s[i] \in PunctuationMarks =>
         /\ i > 1 => s[i - 1] \notin Whitespace
         /\ i < Len(s) => s[i + 1] = " "

\* C13: every string _clean_subtitle_text returns has no newline, no
\* whitespace but single spaces, none at its ends, none before '.', '!', '?'
\* or ',', and a space or the end of the string after each of these.
C13_OutputWellSpaced ==
  (nstep >= 1 /\ out1.kind = "str") => WellSpaced(out1.s)

\* C14: within one call of _resolve_subtitle_priority no entry of a subtitle
\* dict is passed to _download_subtitle_content twice.
C14_NoTrackDownloadedTwice ==
  \A i, j \in 1..Len(downloads) : i # j => downloads[i] # downloads[j]

=============================================================================
